---- MODULE Spec2Model ----
(***************************************************************************)
(* Movie sentiment analyzer: the text normalizer and the prediction        *)
(* service of backend/model.py and the HTTP handlers of backend/app.py.    *)
(*                                                                         *)
(* A string is a sequence of one-character strings.  In a raw review an    *)
(* HTML character reference is written as one element ("&lt;", "&gt;");    *)
(* unescape turns it into the character it names.                          *)
(***************************************************************************)
EXTENDS Integers, Sequences, FiniteSets, TLC

VARIABLES
    analyzer,        \* app.py:22-26  "loaded" or "None"
    request_count,   \* app.py:29
    request,         \* the request handled last, with what the bundle did on its calls
    response,        \* its response
    predict_calls,   \* calls of analyzer.predict made by the request handled last
    handled,         \* requests handled so far
    predict_requests,\* /api/predict requests handled so far
    batch_items,     \* items of accepted batches processed so far
    predictions,     \* calls of analyzer.predict made so far
    request_ids,     \* the request_id of every 200 /api/predict response, in order
    pc,              \* per thread: position in its handler
    loaded,          \* per thread: the value of request_count it has read
    todo,            \* per thread: increments its handler still has to do
    increments,      \* increments the handlers have performed
    text,            \* the argument of preprocess_text
    arg,             \* the argument of predict
    behaviour,       \* what the vectorizer and the classifier did on that call
    clean,           \* preprocess_text(text)
    clean2,          \* preprocess_text(clean)
    result,          \* what predict(arg) gave its caller
    stage            \* position of the pure-function driver

vars == <<analyzer, request_count, request, response, predict_calls, handled,
          predict_requests, batch_items, predictions, request_ids,
          pc, loaded, todo, increments, text, arg, behaviour, clean, clean2, result, stage>>

serverVars == <<analyzer, request_count, request, response, predict_calls, handled,
                predict_requests, batch_items, predictions, request_ids>>
threadVars == <<pc, loaded, todo, increments>>
pureVars == <<text, arg, behaviour, clean, clean2, result, stage>>

(***************************************************************************)
(* Bounds                                                                  *)
(***************************************************************************)
MaxLen == 5            \* longest raw text given to preprocess_text
MaxRequests == 3       \* requests handled in one run of the server
MaxThreads == 2        \* concurrently handled requests

(***************************************************************************)
(* Characters                                                              *)
(***************************************************************************)
Whitespace == {" ", "\t", "\n"}
Entities == {"&lt;", "&gt;"}
Alphabet == {"a", "w", "W", "<", ">"} \cup Whitespace \cup Entities

SeqsUpTo(S, n) == UNION {[1..k -> S] : k \in 0..n}

Drop(s, n) == SubSeq(s, n + 1, Len(s))

(***************************************************************************)
(* model.py:33-45  SentimentAnalyzer.preprocess_text                       *)
(***************************************************************************)
\* html.unescape (model.py:36): every character reference becomes its character.
unescape(s) ==
    [i \in 1..Len(s) |-> CASE s[i] = "&lt;" -> "<"
                           [] s[i] = "&gt;" -> ">"
                           [] OTHER -> s[i]]

\* The end of the match of <.*?> that starts at s[1] = "<": the first ">" with no
\* newline before it ("." does not match a newline); 0 when there is no match.
TagEnd(s) ==
    LET ends == {j \in 2..Len(s) : s[j] = ">" /\ \A k \in 2..(j - 1) : s[k] # "\n"}
    IN  IF s # <<>> /\ s[1] = "<" /\ ends # {}
        THEN CHOOSE j \in ends : \A k \in ends : j <= k
        ELSE 0

\* re.sub(r'<.*?>', '', text) (model.py:38): leftmost matches, left to right.
RECURSIVE StripTags(_)
StripTags(s) ==
    IF s = <<>> THEN <<>>
    ELSE IF TagEnd(s) > 0 THEN StripTags(Drop(s, TagEnd(s)))
    ELSE <<Head(s)>> \o StripTags(Tail(s))

UrlPrefixes == {<<"h", "t", "t", "p">>, <<"w", "w", "w">>}

StartsWith(s, p) == Len(s) >= Len(p) /\ SubSeq(s, 1, Len(p)) = p

\* Length of the run of non-whitespace characters (\S) at the start of s.
RECURSIVE NonSpaceRun(_)
NonSpaceRun(s) ==
    IF s = <<>> \/ Head(s) \in Whitespace THEN 0 ELSE 1 + NonSpaceRun(Tail(s))

\* The length of the match of http\S+|www\S+ at the start of s; 0 when none.
\* \S+ needs one character at least and takes the whole run.
UrlMatch(s) ==
    LET hits == {p \in UrlPrefixes : StartsWith(s, p) /\ NonSpaceRun(Drop(s, Len(p))) >= 1}
    IN  IF hits = {} THEN 0
        ELSE LET p == CHOOSE q \in hits : TRUE
             IN  Len(p) + NonSpaceRun(Drop(s, Len(p)))

\* re.sub(r'http\S+|www\S+', '', text) (model.py:40).
RECURSIVE StripUrls(_)
StripUrls(s) ==
    IF s = <<>> THEN <<>>
    ELSE IF UrlMatch(s) > 0 THEN StripUrls(Drop(s, UrlMatch(s)))
    ELSE <<Head(s)>> \o StripUrls(Tail(s))

\* str.lower (model.py:42).
lower(s) == [i \in 1..Len(s) |-> IF s[i] = "W" THEN "w" ELSE s[i]]

\* str.split() (model.py:44): the maximal runs of non-whitespace characters.
RECURSIVE split(_)
split(s) ==
    IF s = <<>> THEN <<>>
    ELSE IF Head(s) \in Whitespace THEN split(Tail(s))
    ELSE <<SubSeq(s, 1, NonSpaceRun(s))>> \o split(Drop(s, NonSpaceRun(s)))

\* ' '.join(words) (model.py:44).
RECURSIVE join(_)
join(words) ==
    IF words = <<>> THEN <<>>
    ELSE IF Len(words) = 1 THEN Head(words)
    ELSE Head(words) \o <<" ">> \o join(Tail(words))

preprocess_text(s) == join(split(lower(StripUrls(StripTags(unescape(s))))))

\* str.strip() (app.py:133, 206): s without its leading and trailing whitespace.
strip(s) ==
    LET n == Len(s)
        solid(i) == s[i] \notin Whitespace
        \* the whitespace before the first solid character, and after the last
        lead == CHOOSE k \in 0..(n - 1) : solid(k + 1) /\ \A j \in 1..k : ~solid(j)
        trail == CHOOSE k \in 0..(n - 1) : solid(n - k) /\ \A j \in (n - k + 1)..n : ~solid(j)
    IN  IF \A i \in 1..n : ~solid(i) THEN <<>> ELSE SubSeq(s, lead + 1, n - trail)

(***************************************************************************)
(* Python values that reach the handlers and predict: a JSON value is a    *)
(* str, a number, null or a list.                                          *)
(***************************************************************************)
Str(cs) == [type |-> "str", chars |-> cs, items |-> <<>>]
Number == [type |-> "number", chars |-> <<>>, items |-> <<>>]
Null == [type |-> "null", chars |-> <<>>, items |-> <<>>]
List(xs) == [type |-> "list", chars |-> <<>>, items |-> xs]

\* What the loaded vectorizer and classifier do on one call: where an exception
\* is raised, if anywhere, and the class the classifier predicts.
Faults == {"preprocess", "vectorize", "classify"}
Behaviours ==
    {[fault |-> "none", label |-> l] : l \in {0, 1}}
    \cup {[fault |-> f, label |-> 0] : f \in Faults}

(***************************************************************************)
(* model.py:47-90  SentimentAnalyzer.predict                               *)
(***************************************************************************)
Return(v) == [kind |-> "return", value |-> v]
Raise(msg) == [kind |-> "raise", value |-> msg]

\* model.py:64-85: the body of the try block.  The vectorizer is given
\* preprocess_text(review_text); what it and the classifier do with it is ext.
PredictBody(review_text, ext) ==
    IF ext.fault # "none" THEN Raise(ext.fault)
    ELSE Return([sentiment |-> IF ext.label = 1 THEN "Positive" ELSE "Negative",
                 label |-> ext.label])

\* The try block without its except clause.
TryExcept_Propagate(r) == r

\* model.py:63, 87-90: an exception of the try block becomes an error dict.
TryExcept(r) ==
    IF r.kind = "raise" THEN Return([error |-> <<"Prediction failed: ", r.value>>])
    ELSE r

predict(review_text, ext) ==
    IF review_text.type # "str" \/ review_text.chars = <<>>
    THEN Return([error |-> <<"Invalid input: review text must be a non-empty string">>])
    ELSE TryExcept(PredictBody(review_text, ext))

\* 'error' in result (app.py:152, 225).
IsError(dict) == "error" \in DOMAIN dict

(***************************************************************************)
(* Requests.  is_json is the Content-Type test of request.is_json; data    *)
(* is what request.get_json() parses: "malformed" when the body is no      *)
(* JSON, else a JSON value of some kind.  has_key says what Python's       *)
(* `key in data` gives for the handler's key where it is defined (a key    *)
(* of an object, an element of an array, a substring of a string), and     *)
(* value is data[key] of an object.                                        *)
(***************************************************************************)
Json(kind, has_key, value) == [kind |-> kind, has_key |-> has_key, value |-> value]
Request(is_json, data) == [is_json |-> is_json, data |-> data]

\* `key in data` (app.py:117, 187) raises TypeError on a number and on null.
InRaises(data) == data.kind \in {"number", "null"}
\* data[key] (app.py:123, 190) raises TypeError on an array and on a string.
GetItemRaises(data) == data.kind \in {"array", "string"}

MAX_REVIEW_LENGTH == 5000
MaxBatch == 100

Reply(count, status, body, calls) ==
    [count |-> count, status |-> status, body |-> body, calls |-> calls]

\* app.py:237-243: an exception that leaves a handler.
internal_error(count) ==
    Reply(count, 500, [error |-> <<"Internal server error">>,
                       message |-> <<"An unexpected error occurred">>], 0)

Increment_Skip(count) == count

\* app.py:97: request_count += 1.
Increment(count) == count + 1

(***************************************************************************)
(* app.py:78-165  predict_sentiment                                        *)
(***************************************************************************)
\* app.py:147-165: the prediction and its response.
MakePrediction(count, review_text, ext) ==
    LET r == predict(review_text, ext)
    IN  IF r.kind = "raise"
        THEN Reply(count, 500, [error |-> <<"Prediction failed">>,
                                message |-> <<r.value>>], 1)
        ELSE IF IsError(r.value) THEN Reply(count, 500, r.value, 1)
        ELSE Reply(count, 200,
                   [sentiment |-> r.value.sentiment, label |-> r.value.label,
                    review_length |-> Len(review_text.chars),
                    request_id |-> count], 1)

\* app.py:106-145: the validation of the request.
ValidateAndPredict(count, req, ext) ==
    LET data == req.data
        review_text == data.value
    IN  IF ~req.is_json
        THEN Reply(count, 400, [error |-> <<"Invalid request format">>], 0)
        ELSE IF data.kind = "malformed"   \* get_json() aborts with BadRequest
        THEN Reply(count, 400, [error |-> <<"Bad Request">>], 0)
        ELSE IF InRaises(data) THEN internal_error(count)
        ELSE IF ~data.has_key
        THEN Reply(count, 400, [error |-> <<"Missing required field">>], 0)
        ELSE IF GetItemRaises(data) THEN internal_error(count)
        ELSE IF review_text.type # "str"
        THEN Reply(count, 400, [error |-> <<"Invalid review format">>], 0)
        ELSE IF strip(review_text.chars) = <<>>
        THEN Reply(count, 400, [error |-> <<"Empty review">>], 0)
        ELSE IF Len(review_text.chars) > MAX_REVIEW_LENGTH
        THEN Reply(count, 400, [error |-> <<"Review too long">>,
                                current_length |-> Len(review_text.chars)], 0)
        ELSE MakePrediction(count, review_text, ext)

\* The availability check moved behind the validation.
predict_sentiment_ValidateFirst(an, count, req, ext) ==
    LET r == ValidateAndPredict(Increment(count), req, ext)
    IN  IF an = "None" /\ r.status # 400
        THEN Reply(Increment(count), 503, [error |-> <<"Model not available">>], 0)
        ELSE r

predict_sentiment(an, count, req, ext) ==
    IF an = "None"
    THEN Reply(Increment(count), 503, [error |-> <<"Model not available">>], 0)
    ELSE ValidateAndPredict(Increment(count), req, ext)

(***************************************************************************)
(* app.py:167-227  predict_batch                                           *)
(***************************************************************************)
BatchEntry_OneBased(review, i, ext) ==
    IF review.type # "str" \/ strip(review.chars) = <<>>
    THEN [index |-> i, error |-> <<"Invalid or empty review">>]
    ELSE ("index" :> i) @@ predict(review, ext).value

\* app.py:203-221: the result entry of item i (1-based here, tagged i - 1).
BatchEntry(review, i, ext) ==
    IF review.type # "str" \/ strip(review.chars) = <<>>
    THEN [index |-> i - 1, error |-> <<"Invalid or empty review">>]
    ELSE LET r == predict(review, ext)
         IN  IF r.kind = "raise" THEN [index |-> i - 1, error |-> <<r.value>>]
             ELSE ("index" :> (i - 1)) @@ r.value

\* Whether the loop body of item i calls analyzer.predict (app.py:206, 214).
BatchCalls(review) == review.type = "str" /\ strip(review.chars) # <<>>

CountAfter_OncePerBatch(count, n) == count + 1

\* app.py:203-204: the loop runs request_count += 1 once for each of its n items.
CountAfter(count, n) == count + n

\* app.py:225: len([r for r in results if 'error' not in r]).
Successful(results) == Cardinality({i \in 1..Len(results) : ~IsError(results[i])})

\* app.py:201-227: the loop over the reviews and the response.
ProcessBatch(count, reviews, exts) ==
    LET results == [i \in 1..Len(reviews) |-> BatchEntry(reviews[i], i, exts[i])]
    IN  Reply(CountAfter(count, Len(reviews)), 200,
              [total_reviews |-> Len(reviews),
               successful_predictions |-> Successful(results),
               results |-> results],
              Cardinality({i \in 1..Len(reviews) : BatchCalls(reviews[i])}))

\* app.py:198: len(reviews) > 100.
TooMany_OffByOne(reviews) == Len(reviews) > MaxBatch + 1

TooMany(reviews) == Len(reviews) > MaxBatch

predict_batch(an, count, req, exts) ==
    LET data == req.data
        reviews == data.value
    IN  IF an = "None" THEN Reply(count, 503, [error |-> <<"Model not available">>], 0)
        ELSE IF ~req.is_json
        THEN Reply(count, 400, [error |-> <<"Invalid request format">>], 0)
        ELSE IF data.kind = "malformed"   \* get_json() aborts with BadRequest
        THEN Reply(count, 400, [error |-> <<"Bad Request">>], 0)
        ELSE IF InRaises(data) THEN internal_error(count)
        ELSE IF ~data.has_key
        THEN Reply(count, 400, [error |-> <<"Missing required field reviews">>], 0)
        ELSE IF GetItemRaises(data) THEN internal_error(count)
        ELSE IF reviews.type # "list"
        THEN Reply(count, 400, [error |-> <<"Reviews must be a list">>], 0)
        ELSE IF Len(reviews.items) = 0
        THEN Reply(count, 400, [error |-> <<"Reviews list cannot be empty">>], 0)
        ELSE IF TooMany(reviews.items)
        THEN Reply(count, 400, [error |-> <<"Maximum 100 reviews per batch request">>], 0)
        ELSE ProcessBatch(count, reviews.items, exts)

(***************************************************************************)
(* app.py:46-76  health_check and get_stats                                *)
(***************************************************************************)
health_check(an, count) ==
    Reply(count, 200, [status |-> "healthy", model_loaded |-> (an # "None"),
                       total_requests |-> count], 0)

get_stats(an, count) ==
    IF an = "None" THEN Reply(count, 503, [error |-> <<"Model not loaded">>], 0)
    ELSE Reply(count, 200, [total_requests |-> count,
                            max_review_length |-> MAX_REVIEW_LENGTH], 0)

(***************************************************************************)
(* The requests the server is given                                        *)
(***************************************************************************)
MaxChars == 1          \* longest review enumerated character by character
MaxItems == 1          \* longest batch enumerated item by item

Repeat(c, n) == [i \in 1..n |-> c]
Cycle(pattern, n) == [i \in 1..n |-> pattern[((i - 1) % Len(pattern)) + 1]]

ReviewTexts ==
    SeqsUpTo({"a", " "}, MaxChars)
    \cup {Repeat("a", n) : n \in {MAX_REVIEW_LENGTH, MAX_REVIEW_LENGTH + 1}}

NoValue == Null

\* The bodies that do not hold the handler's key, and those of another kind than
\* an object that make `key in data` true.
BodiesWithoutValue ==
    {Request(FALSE, Json("object", TRUE, Str(<<"a">>))),
     Request(TRUE, Json("malformed", FALSE, NoValue)),
     Request(TRUE, Json("number", FALSE, NoValue)),
     Request(TRUE, Json("null", FALSE, NoValue)),
     Request(TRUE, Json("object", FALSE, NoValue))}
    \cup {Request(TRUE, Json(k, b, NoValue)) : k \in {"array", "string"}, b \in BOOLEAN}

PredictRequests ==
    BodiesWithoutValue
    \cup {Request(TRUE, Json("object", TRUE, v)) :
            v \in {Str(t) : t \in ReviewTexts} \cup {Number, Null, List(<<>>)}}

\* What the bundle does on a call made by a handler.
HandlerBehaviours == {b \in Behaviours : b.fault \in {"none", "vectorize"}}

\* A batch item with what the bundle does on predict(item), when it is called.
Quiet == [fault |-> "none", label |-> 0]
BatchItems ==
    {[review |-> Str(<<"a">>), ext |-> e] : e \in HandlerBehaviours}
    \cup {[review |-> v, ext |-> Quiet] : v \in {Str(<<>>), Str(<<" ">>), Number}}

\* One item of each kind, in a fixed order.
EveryItem ==
    <<[review |-> Str(<<"a">>), ext |-> [fault |-> "none", label |-> 1]],
      [review |-> Str(<<>>), ext |-> Quiet],
      [review |-> Str(<<"a">>), ext |-> [fault |-> "vectorize", label |-> 0]],
      [review |-> Number, ext |-> Quiet],
      [review |-> Str(<<"a">>), ext |-> [fault |-> "none", label |-> 0]],
      [review |-> Str(<<" ">>), ext |-> Quiet]>>

\* Batches enumerated item by item, and batches at and over the limit.
Batches ==
    SeqsUpTo(BatchItems, MaxItems)
    \cup {Cycle(EveryItem, n) : n \in {MaxBatch, MaxBatch + 1}}
    \cup {Repeat(x, n) : x \in BatchItems, n \in {MaxBatch, MaxBatch + 1}}

Reviews(batch) == [i \in 1..Len(batch) |-> batch[i].review]
Exts(batch) == [i \in 1..Len(batch) |-> batch[i].ext]

BatchRequests ==
    {[req |-> r, exts |-> <<>>] : r \in BodiesWithoutValue}
    \cup {[req |-> Request(TRUE, Json("object", TRUE, v)), exts |-> <<>>] :
            v \in {Str(<<"a">>), Number, Null}}
    \cup {[req |-> Request(TRUE, Json("object", TRUE, List(Reviews(b)))), exts |-> Exts(b)] :
            b \in Batches}

(***************************************************************************)
(* The server handling one request after another                           *)
(***************************************************************************)
NoRequest == [req |-> Request(FALSE, Json("none", FALSE, NoValue)), exts |-> <<>>]
NoResponse == [endpoint |-> "none", status |-> 0, body |-> [none |-> TRUE]]
NoResult == [kind |-> "none", value |-> [none |-> TRUE]]

\* app.py:19-29: the analyzer is loaded, or loading failed and it is None.
ServerInit ==
    /\ analyzer \in {"loaded", "None"}
    /\ request_count = 0
    /\ request = NoRequest
    /\ response = NoResponse
    /\ predict_calls = 0
    /\ handled = 0
    /\ predict_requests = 0
    /\ batch_items = 0
    /\ predictions = 0
    /\ request_ids = <<>>

ThreadsIdle ==
    /\ pc = [t \in 1..MaxThreads |-> "idle"]
    /\ loaded = [t \in 1..MaxThreads |-> 0]
    /\ todo = [t \in 1..MaxThreads |-> 0]
    /\ increments = 0

PureIdle ==
    /\ text = <<>>
    /\ arg = Null
    /\ behaviour = [fault |-> "none", label |-> 0]
    /\ clean = <<>>
    /\ clean2 = <<>>
    /\ result = NoResult
    /\ stage = "idle"

Init == ServerInit /\ ThreadsIdle /\ PureIdle

\* The server has handled a request at `endpoint` whose handler gave r.
Handle(endpoint, in, r) ==
    /\ handled < MaxRequests
    /\ request' = in
    /\ handled' = handled + 1
    /\ request_count' = r.count
    /\ response' = [endpoint |-> endpoint, status |-> r.status, body |-> r.body]
    /\ predict_calls' = r.calls
    /\ predictions' = predictions + r.calls
    /\ UNCHANGED analyzer

Home ==
    /\ Handle("home", NoRequest, Reply(request_count, 200,
                            [status |-> "online", model_loaded |-> (analyzer # "None")], 0))
    /\ UNCHANGED <<predict_requests, batch_items, request_ids, threadVars, pureVars>>

HealthCheck ==
    /\ Handle("health", NoRequest, health_check(analyzer, request_count))
    /\ UNCHANGED <<predict_requests, batch_items, request_ids, threadVars, pureVars>>

GetStats ==
    /\ Handle("stats", NoRequest, get_stats(analyzer, request_count))
    /\ UNCHANGED <<predict_requests, batch_items, request_ids, threadVars, pureVars>>

PredictSentimentOn(req, e) ==
    LET r == predict_sentiment(analyzer, request_count, req, e)
    IN  /\ Handle("predict", [req |-> req, exts |-> <<e>>], r)
        /\ predict_requests' = predict_requests + 1
        /\ request_ids' = IF r.status = 200 THEN Append(request_ids, r.body.request_id)
                          ELSE request_ids
        /\ UNCHANGED <<batch_items, threadVars>>

PredictSentiment ==
    \E req \in PredictRequests, e \in HandlerBehaviours :
        PredictSentimentOn(req, e) /\ UNCHANGED pureVars

PredictBatch ==
    \E b \in BatchRequests :
        LET r == predict_batch(analyzer, request_count, b.req, b.exts)
        IN  /\ Handle("batch", b, r)
            /\ batch_items' = IF r.status = 200 THEN batch_items + Len(b.req.data.value.items)
                              ELSE batch_items
            /\ UNCHANGED <<predict_requests, request_ids, threadVars, pureVars>>

Next == Home \/ HealthCheck \/ GetStats \/ PredictSentiment \/ PredictBatch

Spec == Init /\ [][Next]_vars

(***************************************************************************)
(* Requests handled concurrently: each thread runs one handler, and        *)
(* request_count += 1 is a read of the global followed by a write          *)
(* (app.py:96-97, 203-204); the threads interleave between the two.        *)
(***************************************************************************)
Threads == 1..MaxThreads

\* predict_sentiment increments once, whatever the request (app.py:97).
BeginPredict(t) ==
    /\ pc[t] = "idle"
    /\ pc' = [pc EXCEPT ![t] = "load"]
    /\ todo' = [todo EXCEPT ![t] = 1]
    /\ UNCHANGED <<loaded, increments, serverVars, pureVars>>

\* predict_batch increments once per item of an accepted batch (app.py:203-204).
BeginBatch(t) ==
    /\ pc[t] = "idle"
    /\ analyzer = "loaded"
    /\ \E n \in 1..(MaxItems + 1) : todo' = [todo EXCEPT ![t] = n]
    /\ pc' = [pc EXCEPT ![t] = "load"]
    /\ UNCHANGED <<loaded, increments, serverVars, pureVars>>

Load(t) ==
    /\ pc[t] = "load"
    /\ loaded' = [loaded EXCEPT ![t] = request_count]
    /\ pc' = [pc EXCEPT ![t] = "store"]
    /\ UNCHANGED <<todo, increments, serverVars, pureVars>>

Store(t) ==
    /\ pc[t] = "store"
    /\ request_count' = Increment(loaded[t])
    /\ increments' = increments + 1
    /\ todo' = [todo EXCEPT ![t] = todo[t] - 1]
    /\ pc' = [pc EXCEPT ![t] = IF todo[t] = 1 THEN "done" ELSE "load"]
    /\ UNCHANGED <<loaded, analyzer, request, response, predict_calls, handled,
                   predict_requests, batch_items, predictions, request_ids, pureVars>>

NextThreads == \E t \in Threads : BeginPredict(t) \/ BeginBatch(t) \/ Load(t) \/ Store(t)

SpecThreads == Init /\ [][NextThreads]_vars

(***************************************************************************)
(* preprocess_text applied to a raw text, and to its own output            *)
(***************************************************************************)
RawTexts == SeqsUpTo(Alphabet, MaxLen)

InitNorm ==
    /\ ServerInit /\ ThreadsIdle
    /\ text \in RawTexts
    /\ arg = Null
    /\ behaviour = Quiet
    /\ clean = <<>>
    /\ clean2 = <<>>
    /\ result = NoResult
    /\ stage = "input"

Normalize ==
    /\ stage = "input"
    /\ clean' = preprocess_text(text)
    /\ stage' = "once"
    /\ UNCHANGED <<text, arg, behaviour, clean2, result, serverVars, threadVars>>

NormalizeAgain ==
    /\ stage = "once"
    /\ clean2' = preprocess_text(clean)
    /\ stage' = "twice"
    /\ UNCHANGED <<text, arg, behaviour, clean, result, serverVars, threadVars>>

NextNorm == Normalize \/ NormalizeAgain

SpecNorm == InitNorm /\ [][NextNorm]_vars

(***************************************************************************)
(* predict called on any value before the server handles requests (as      *)
(* model.py:93-107 calls it), and by predict_sentiment                     *)
(***************************************************************************)
PredictArgs ==
    {Str(t) : t \in SeqsUpTo({"a", " "}, MaxChars)} \cup {Number, Null, List(<<>>)}

CallPredict ==
    \E x \in PredictArgs, e \in Behaviours :
        /\ handled = 0
        /\ arg' = x
        /\ behaviour' = e
        /\ result' = predict(x, e)
        /\ stage' = "called"
        /\ UNCHANGED <<text, clean, clean2, serverVars, threadVars>>

PostPredict ==
    \E req \in PredictRequests, e \in Behaviours :
        /\ PredictSentimentOn(req, e)
        /\ arg' = req.data.value
        /\ behaviour' = e
        /\ result' = IF predict_calls' = 1 THEN predict(req.data.value, e) ELSE NoResult
        /\ stage' = "posted"
        /\ UNCHANGED <<text, clean, clean2>>

NextPredict == CallPredict \/ PostPredict

SpecPredict == Init /\ [][NextPredict]_vars

(***************************************************************************)
(* Properties                                                              *)
(***************************************************************************)
Served(endpoint) == response.endpoint = endpoint
Data == request.req.data
IsBlank(v) == \A i \in 1..Len(v.chars) : v.chars[i] \in Whitespace

\* The /api/predict inputs the interface calls invalid: a body that is no JSON,
\* a JSON value of any kind without a `review` field (only an object has
\* fields), a review that is no string, is empty or blank, or is too long.
TooLong == Data.kind = "object" /\ Data.has_key /\ Data.value.type = "str"
           /\ ~IsBlank(Data.value) /\ Len(Data.value.chars) > MAX_REVIEW_LENGTH
InvalidPredictInput ==
    \/ ~request.req.is_json
    \/ Data.kind \in {"malformed", "array", "number", "string", "null"}
    \/ Data.kind = "object" /\ ~Data.has_key
    \/ Data.kind = "object" /\ Data.has_key
       /\ (Data.value.type # "str" \/ IsBlank(Data.value)
           \/ Len(Data.value.chars) > MAX_REVIEW_LENGTH)

\* C1: with the model loaded, every /api/predict request whose input is invalid
\* is answered 400 and makes no call of analyzer.predict, and the 400 for a
\* review that is too long carries current_length, the length of the review.
C1_InvalidInputIs400 ==
    (analyzer = "loaded" /\ Served("predict") /\ InvalidPredictInput)
        => /\ response.status = 400
           /\ predict_calls = 0
           /\ TooLong => response.body.current_length = Len(Data.value.chars)

Items == Data.value.items
Results == response.body.results
AcceptedBatch ==
    /\ analyzer = "loaded" /\ Served("batch") /\ request.req.is_json
    /\ Data.kind = "object" /\ Data.has_key /\ Data.value.type = "list"
    /\ Len(Items) \in 1..MaxBatch
ItemFails(i) ==
    \/ Items[i].type # "str"
    \/ IsBlank(Items[i])
    \/ request.exts[i].fault # "none"

\* C2: an accepted batch (a list of 1 to 100 items) is answered 200 with one
\* entry per item, in input order, entry i tagged with index i; the entry is an
\* error exactly when the item is no string, is empty or blank, or its
\* prediction fails, and a prediction otherwise; successful_predictions counts
\* the entries without an error.
C2_BatchIsolatesItems ==
    AcceptedBatch
        => /\ response.status = 200
           /\ Len(Results) = Len(Items)
           /\ \A i \in 1..Len(Items) :
                /\ Results[i].index = i - 1
                /\ IsError(Results[i]) <=> ItemFails(i)
                /\ ~ItemFails(i) => Results[i].label = request.exts[i].label
           /\ response.body.successful_predictions
                = Cardinality({i \in 1..Len(Items) : ~IsError(Results[i])})

\* A batch at the limit with a failing item between predicted ones.
C2_Witness ==
    /\ AcceptedBatch /\ Len(Items) = MaxBatch
    /\ ~ItemFails(1) /\ ItemFails(2) /\ ItemFails(3) /\ ItemFails(4) /\ ~ItemFails(5)
    /\ response.body.successful_predictions \in 1..(MaxBatch - 1)

AllDone == \A t \in Threads : pc[t] = "done"

\* C3: under any interleaving of concurrently handled requests no increment is
\* lost: once all have finished the counter is its initial value, 0, plus the
\* number of increments the handlers performed.
C3_NoLostUpdate == AllDone => request_count = increments

\* C4 as stated: the counter equals the number of predictions performed so far.
C4_CountsPredictions == request_count = predictions

\* C4, amended: the counter starts at 0, never decreases, and after any sequence
\* of requests it is the number of /api/predict requests handled, rejected ones
\* included, plus the number of items of the accepted batches, invalid ones
\* included; GET requests and rejected batches leave it as it is.
C4_CountsRequestsAndItems ==
    /\ request_count = 0
    /\ [][/\ request_count' >= request_count
          /\ request_count' = predict_requests' + batch_items'
          /\ request_count' >= predictions']_vars

\* Rejected /api/predict requests and invalid batch items have been counted.
C4_Witness ==
    /\ request_count = predict_requests + batch_items
    /\ predict_requests > 0 /\ batch_items > 0
    /\ predictions < request_count
    /\ Served("health")

StrictlyIncreasing(ids) == \A i, j \in 1..Len(ids) : i < j => ids[i] < ids[j]

\* C5: every 200 response of /api/predict carries the counter's value as its
\* request_id, and the request_ids of successive 200 responses of /api/predict
\* are strictly increasing, whatever is handled in between.
C5_RequestIdsIncrease ==
    /\ (Served("predict") /\ response.status = 200)
         => /\ response.body.request_id = request_count
            /\ request_ids # <<>>
            /\ request_ids[Len(request_ids)] = response.body.request_id
    /\ StrictlyIncreasing(request_ids)

\* Two 200 responses with a request in between that is not one.
C5_Witness ==
    /\ Served("predict") /\ response.status = 200
    /\ Len(request_ids) = 2 /\ request_ids[1] = 1 /\ handled = 3

\* C6: once loading has failed the analyzer stays None, and every request to
\* /api/predict, /api/predict/batch and /api/stats is answered 503 whatever
\* its body, while /api/health is answered 200 with model_loaded false.
C6_UnavailableIs503 ==
    [][analyzer = "None"
         => /\ analyzer' = "None"
            /\ response'.endpoint \in {"predict", "batch", "stats"} => response'.status = 503
            /\ response'.endpoint = "health"
                 => response'.status = 200 /\ ~response'.body.model_loaded]_vars

\* A request that is no JSON answered 503.
C6_Witness ==
    /\ analyzer = "None" /\ Served("predict") /\ ~request.req.is_json
    /\ response.status = 503

\* The batches the interface rejects as a whole: `reviews` missing from the
\* object, no list, an empty list, a list of more than 100 items.
RejectedBatch ==
    /\ request.req.is_json /\ Data.kind = "object"
    /\ \/ ~Data.has_key
       \/ Data.value.type # "list"
       \/ Len(Items) = 0
       \/ Len(Items) > MaxBatch

\* C7: with the model loaded, a batch of more than 100 items, and one whose
\* `reviews` is missing, no list or empty, is answered 400 with no call of
\* analyzer.predict and the counter left as it was.
C7_RejectedBatchHasNoEffect ==
    [][(analyzer = "loaded" /\ handled' = handled + 1 /\ response'.endpoint = "batch"
        /\ RejectedBatch')
         => /\ response'.status = 400
            /\ predict_calls' = 0
            /\ predictions' = predictions
            /\ request_count' = request_count]_vars

\* A batch of 101 items rejected after the counter has moved.
C7_Witness ==
    /\ analyzer = "loaded" /\ Served("batch") /\ RejectedBatch
    /\ Data.has_key /\ Len(Items) = MaxBatch + 1
    /\ response.status = 400 /\ request_count > 0

\* C8: predict never raises: it returns an error dict when its argument is no
\* string or is empty and when an exception is raised while it normalizes,
\* vectorizes or classifies, and an outcome otherwise; and an error it returns
\* to predict_sentiment is the body of a 500 response.
C8_PredictReturnsErrors ==
    result # NoResult
        => /\ result.kind = "return"
           /\ IsError(result.value)
                <=> (arg.type # "str" \/ arg.chars = <<>> \/ behaviour.fault # "none")
           /\ ~IsError(result.value) => result.value.label = behaviour.label
           /\ stage = "posted"
                => IF IsError(result.value)
                   THEN response.status = 500 /\ response.body = result.value
                   ELSE response.status = 200

\* An exception of the classifier answered 500 with predict's message.
C8_Witness ==
    /\ stage = "posted" /\ behaviour.fault = "classify"
    /\ response.status = 500
    /\ response.body = [error |-> <<"Prediction failed: ", "classify">>]

HasTag(s) == \E i, j \in 1..Len(s) : i < j /\ s[i] = "<" /\ s[j] = ">"
HasUrlToken(s) ==
    \E k \in 1..Len(split(s)) : \E p \in UrlPrefixes : StartsWith(split(s)[k], p)
HasWhitespaceRun(s) ==
    \E i \in 1..(Len(s) - 1) : s[i] \in Whitespace /\ s[i + 1] \in Whitespace
Untrimmed(s) == s # <<>> /\ (s[1] \in Whitespace \/ s[Len(s)] \in Whitespace)

\* C9: the output of preprocess_text holds no substring <...>, no
\* whitespace-delimited token starting with http or www, no run of two or more
\* whitespace characters and no leading or trailing whitespace.
C9_OutputIsClean ==
    stage # "input"
        => ~HasTag(clean) /\ ~HasUrlToken(clean)
           /\ ~HasWhitespaceRun(clean) /\ ~Untrimmed(clean)

\* Text free of HTML, URLs and extra whitespace: no <...>, no character
\* reference, no token beginning with http or www in either case, no leading,
\* trailing or repeated whitespace.
AlreadyClean(s) ==
    /\ ~HasTag(s)
    /\ \A i \in 1..Len(s) : s[i] \notin Entities
    /\ ~HasUrlToken(lower(s))
    /\ ~HasWhitespaceRun(s) /\ ~Untrimmed(s)

\* C10: on text already free of HTML, URLs and extra whitespace,
\* preprocess_text(preprocess_text(x)) = preprocess_text(x).
C10_Idempotent == (stage = "twice" /\ AlreadyClean(text)) => clean2 = clean

====
